---- MODULE Spec2Model ----
(***************************************************************************)
(* State-machine model of the drag-and-drop file tree: the zustand store   *)
(* (store.ts), the Tree component's handlers (Tree.tsx), the flattening    *)
(* hook (useSelectableItems.ts), the tree utilities (utils.ts), the        *)
(* TreeNode click/auto-expand logic (TreeNode.tsx) and the host            *)
(* application's payload handler (ImplApp.tsx).                            *)
(*                                                                         *)
(* Conventions.  Node ids are strings.  A raw tree (TTree) is a function   *)
(* from ids to the sequence of the ids of the node's children; a node      *)
(* without children has the empty sequence (the code treats `undefined`    *)
(* and `[]` alike everywhere).  All indices kept in the state (flat index, *)
(* childIndex, insertAt) are 0-based as in the code; TLA+ sequences are    *)
(* 1-based, so positions are shifted where a sequence is indexed.          *)
(***************************************************************************)
EXTENDS Integers, Sequences, FiniteSets, TLC

\* ------------------------------------------------------------------------
\* Bounds of the model
\* ------------------------------------------------------------------------
MaxDrops == 1
MaxSelected == 2

\* ------------------------------------------------------------------------
\* Values
\* ------------------------------------------------------------------------
NullId == "null"
NullNum == -1

ROOT == "root"
Dirs == {"A", "C"}
Files == {"A1", "A2", "B"}
NodeIds == Dirs \cup Files
AllIds == NodeIds \cup {ROOT}

CatchZoneStart == "__catch_zone_start__"
CatchZoneEnd == "__catch_zone_end__"

nodeType(id) == IF id \in Dirs \cup {ROOT} THEN "directory" ELSE "file"

Min(a, b) == IF a < b THEN a ELSE b
Max(a, b) == IF a < b THEN b ELSE a

SeqToSet(s) == {s[i] : i \in 1..Len(s)}

\* JavaScript Array.prototype.findIndex for "element equals x": 0-based
\* position of the first match, -1 when there is none.
RECURSIVE findIndexFrom(_, _, _)
findIndexFrom(s, x, i) ==
  IF i > Len(s) THEN -1
  ELSE IF s[i] = x THEN i - 1
  ELSE findIndexFrom(s, x, i + 1)

findIndex(s, x) == findIndexFrom(s, x, 1)

\* JavaScript Array.prototype.filter, keeping the elements in set S.
RECURSIVE filterSeq(_, _)
filterSeq(s, S) ==
  IF s = <<>> THEN <<>>
  ELSE IF Head(s) \in S THEN <<Head(s)>> \o filterSeq(Tail(s), S)
  ELSE filterSeq(Tail(s), S)

\* s with the element at 0-based position i removed (splice(i, 1)).
removeAt(s, i) == SubSeq(s, 1, i) \o SubSeq(s, i + 2, Len(s))

\* JavaScript splice(start, 0, ...items): start is clamped to [0, length],
\* a negative start counts from the end.
spliceIn(s, start, items) ==
  LET st == IF start < 0 THEN Max(Len(s) + start, 0) ELSE Min(start, Len(s))
  IN SubSeq(s, 1, st) \o items \o SubSeq(s, st + 1, Len(s))

\* ------------------------------------------------------------------------
\* Raw trees
\* ------------------------------------------------------------------------
NoKids == [id \in AllIds |-> <<>>]

\* root -> [A(dir)[C(dir)], B(file)]
NestedTree == [NoKids EXCEPT ![ROOT] = <<"A", "B">>,
                             !["A"] = <<"C">>]

InitialTrees == {NestedTree}

\* ------------------------------------------------------------------------
\* utils.ts: buildInternalTree
\* The augmented graph is a node table in creation (pre-)order; entry 1 is
\* the root.  `parent` is the table position of the parent, 0 for null.
\* ------------------------------------------------------------------------
RECURSIVE buildNode(_, _, _, _, _)
RECURSIVE buildChildren(_, _, _, _, _, _)
buildNode(kids, id, parent, depth, tbl) ==
  LET t0 == Append(tbl, [id |-> id, parent |-> parent, depth |-> depth,
                         children |-> <<>>])
  IN buildChildren(kids, kids[id], 1, Len(tbl) + 1, depth, t0)

\* A version that passes its own depth on to the children:
buildChildrenSameDepth(kids, cs, i, self, depth, tbl) ==
  IF i > Len(cs) THEN tbl
  ELSE LET childPos == Len(tbl) + 1
           t1 == buildNode(kids, cs[i], self, depth, tbl)
           t2 == [t1 EXCEPT ![self].children = Append(@, childPos)]
       IN buildChildren(kids, cs, i + 1, self, depth, t2)

buildChildren(kids, cs, i, self, depth, tbl) ==
  IF i > Len(cs) THEN tbl
  ELSE LET childPos == Len(tbl) + 1
           t1 == buildNode(kids, cs[i], self, depth + 1, tbl)
           t2 == [t1 EXCEPT ![self].children = Append(@, childPos)]
       IN buildChildren(kids, cs, i + 1, self, depth, t2)

buildInternalTree(kids) == buildNode(kids, ROOT, 0, 0, <<>>)

\* ------------------------------------------------------------------------
\* utils.ts: hasAncestor, getChildIndex, findNodeById
\* ------------------------------------------------------------------------
RECURSIVE hasAncestorWalk(_, _, _)
hasAncestorWalk(ir, node, ancestorId) ==
  IF node = 0 THEN FALSE
  ELSE IF ir[node].id = ancestorId THEN TRUE
  ELSE hasAncestorWalk(ir, ir[node].parent, ancestorId)

\* A slip that compares only the node itself and never follows `parent`.
hasAncestorNoWalk(ir, node, ancestorId) ==
  node # 0 /\ ir[node].id = ancestorId

hasAncestor(ir, node, ancestorId) == hasAncestorWalk(ir, node, ancestorId)

\* ids of the children of table entry `node`, in order
childIds(ir, node) == [i \in 1..Len(ir[node].children) |-> ir[ir[node].children[i]].id]

getChildIndex(ir, node) ==
  IF ir[node].parent = 0 THEN 0
  ELSE LET index == findIndex(childIds(ir, ir[node].parent), ir[node].id)
       IN IF index = -1 THEN 0 ELSE index

\* Depth-first pre-order search; the table is in pre-order, so the first
\* entry with the id is the one the recursion returns.  0 stands for null.
RECURSIVE findNodeByIdFrom(_, _, _)
findNodeByIdFrom(ir, id, i) ==
  IF i > Len(ir) THEN 0
  ELSE IF ir[i].id = id THEN i
  ELSE findNodeByIdFrom(ir, id, i + 1)

\* A lookup that falls back to the root instead of returning null:
findNodeByIdOrRoot(ir, id) ==
  IF findNodeByIdFrom(ir, id, 1) = 0 THEN 1 ELSE findNodeByIdFrom(ir, id, 1)

findNodeById(ir, id) == findNodeByIdFrom(ir, id, 1)

\* ------------------------------------------------------------------------
\* store.ts: collapsed map.  Absent key = expanded (`collapsed[id] ?? false`).
\* ------------------------------------------------------------------------
isCollapsedIn(coll, id) == IF id \in DOMAIN coll THEN coll[id] ELSE FALSE

\* toggleCollapsed writes `[id]: !state.collapsed[id]`.  A version that can
\* only collapse:
toggleCollapsedMapNoFlip(coll, id) == (id :> TRUE) @@ coll

toggleCollapsedMap(coll, id) == (id :> ~isCollapsedIn(coll, id)) @@ coll

\* A version that forgets to spread the previous map:
setCollapsedMapOnly(coll, id, value) == id :> value

\* A version that flips the flag instead of setting it:
setCollapsedMapToggling(coll, id, value) == toggleCollapsedMap(coll, id)

\* A version that writes `true` whatever the value passed:
setCollapsedMapAlwaysTrue(coll, id, value) == (id :> TRUE) @@ coll

setCollapsedMap(coll, id, value) == (id :> value) @@ coll

\* ------------------------------------------------------------------------
\* useSelectableItems.ts: the flattening walk
\* acc = [items |-> sequence of [node, index], index |-> next counter value]
\* ------------------------------------------------------------------------
\* Lines 78-80.  A version whose counter also counts the skipped root:
pushEntryCountingRoot(ir, node, acc) ==
  [items |-> IF ir[node].depth > 0
             THEN Append(acc.items, [node |-> node, index |-> acc.index])
             ELSE acc.items,
   index |-> acc.index + 1]

pushEntry(ir, node, acc) ==
  IF ir[node].depth > 0
  THEN [items |-> Append(acc.items, [node |-> node, index |-> acc.index]),
        index |-> acc.index + 1]
  ELSE acc

\* Lines 85-86.  A version that forgets the collapse flag:
shouldShowChildrenAlways(ir, coll, node) == Len(ir[node].children) > 0

shouldShowChildren(ir, coll, node) ==
  /\ Len(ir[node].children) > 0
  /\ (ir[node].depth = 0 \/ ~isCollapsedIn(coll, ir[node].id))

RECURSIVE walk(_, _, _, _)
RECURSIVE walkChildren(_, _, _, _, _)
walk(ir, coll, node, acc) ==
  IF shouldShowChildren(ir, coll, node)
  THEN walkChildren(ir, coll, ir[node].children, 1, pushEntry(ir, node, acc))
  ELSE pushEntry(ir, node, acc)

walkChildren(ir, coll, cs, i, acc) ==
  IF i > Len(cs) THEN acc
  ELSE walkChildren(ir, coll, cs, i + 1, walk(ir, coll, cs[i], acc))

useSelectableItems(ir, coll) == walk(ir, coll, 1, [items |-> <<>>, index |-> 0]).items

\* ids of the flat sequence, in order
flatIds(ir, flat) == [i \in 1..Len(flat) |-> ir[flat[i].node].id]

\* selectableItems.find(s => s.node.item.id === id): 1-based position of the
\* first entry with the id, 0 when absent.
findItem(ir, flat, id) == findIndex(flatIds(ir, flat), id) + 1

\* ------------------------------------------------------------------------
\* ImplApp.tsx: the host's payload handler and its helpers
\* ------------------------------------------------------------------------
RECURSIVE removeNodeFromTree(_, _, _)
RECURSIVE removeFromChildren(_, _, _, _)
\* Returns [ok, kids]: removes the first occurrence found, looking at the
\* direct children first and then recursing into each child in order.
removeNodeFromTree(kids, root, id) ==
  IF kids[root] = <<>> THEN [ok |-> FALSE, kids |-> kids]
  ELSE LET index == findIndex(kids[root], id)
       IN IF index # -1
          THEN [ok |-> TRUE, kids |-> [kids EXCEPT ![root] = removeAt(@, index)]]
          ELSE removeFromChildren(kids, kids[root], 1, id)

removeFromChildren(kids, cs, i, id) ==
  IF i > Len(cs) THEN [ok |-> FALSE, kids |-> kids]
  ELSE LET r == removeNodeFromTree(kids, cs[i], id)
       IN IF r.ok THEN r ELSE removeFromChildren(kids, cs, i + 1, id)

RECURSIVE removeItems(_, _)
removeItems(kids, items) ==
  IF items = <<>> THEN kids
  ELSE removeItems(removeNodeFromTree(kids, ROOT, Head(items)).kids, Tail(items))

\* ids reachable from `from` (itself included) along child links
RECURSIVE subtreeIds(_, _)
subtreeIds(kids, from) ==
  {from} \cup UNION {subtreeIds(kids, kids[from][i]) : i \in 1..Len(kids[from])}

\* findNodeByIdMutable(newTree, id) # null
findNodeByIdMutable(kids, id) == id \in subtreeIds(kids, ROOT)

\* ImplApp.handleDragEnd: the next raw tree.  The spliced items are the
\* payload's node objects, i.e. nodes of the previous tree with the subtrees
\* they had there; everything else is the clone after the removals.
\* A version that pushes the items at the end instead of splicing at insertAt:
onDragEndAppend(kids, payload) ==
  LET newTree == removeItems(kids, payload.items)
  IN IF ~findNodeByIdMutable(newTree, payload.parent) THEN kids
     ELSE LET spliced == [newTree EXCEPT ![payload.parent] = @ \o payload.items]
              carried == UNION {subtreeIds(kids, payload.items[i]) :
                                  i \in 1..Len(payload.items)}
          IN [id \in AllIds |-> IF id \in carried THEN kids[id] ELSE spliced[id]]

onDragEnd(kids, payload) ==
  LET newTree == removeItems(kids, payload.items)
  IN IF ~findNodeByIdMutable(newTree, payload.parent) THEN kids
     ELSE LET spliced == [newTree EXCEPT ![payload.parent] =
                             spliceIn(@, payload.insertAt, payload.items)]
              carried == UNION {subtreeIds(kids, payload.items[i]) :
                                  i \in 1..Len(payload.items)}
          IN [id \in AllIds |-> IF id \in carried THEN kids[id] ELSE spliced[id]]

\* ------------------------------------------------------------------------
\* State
\* ------------------------------------------------------------------------
VARIABLES
  tree,             \* ImplApp's `tree` state: the raw hierarchy
  internalRoot,     \* Tree.tsx useMemo: buildInternalTree(data)
  selectableItems,  \* Tree.tsx useMemo: useSelectableItems(internalRoot, collapsed)
  collapsed,        \* store: collapsed
  selectedIds,      \* store: selectedIds
  anchorId,         \* store: anchorId
  draggingIds,      \* store: draggingIds
  hoveredParent,    \* store: hoveredParent
  active,           \* dnd-kit: id of the item being dragged, NullId when idle
  timers,           \* per TreeNode id, the number of pending auto-expand timeouts
  mounted,          \* the Tree has rendered and run its effects once
  lastMove,         \* whether the last handleDragMove of the gesture hit the cycle check
  emitted,          \* the payload the last handler passed to onDragEnd (NoPayload if none)
  emitCount,        \* number of payloads handed to onDragEnd so far
  lastDrop          \* what the last handler, if it was handleDragEnd, read on entry

vars == <<tree, internalRoot, selectableItems, collapsed, selectedIds, anchorId,
          draggingIds, hoveredParent, active, timers, mounted, lastMove,
          emitted, emitCount, lastDrop>>

initialHoveredParent ==
  [parentId |-> NullId, parentDepth |-> NullNum, index |-> NullNum,
   childIndex |-> NullNum, dropIntent |-> NullId]

NoPayload == [items |-> <<>>, parent |-> NullId, children |-> <<>>, insertAt |-> NullNum]

\* handleDragEnd's view on entry (Tree.tsx lines 400-401, the event's `over`,
\* the rendered tree) kept for the one state that follows it.
NoDrop ==
  [dropped |-> FALSE, over |-> FALSE, hoveredParent |-> initialHoveredParent,
   draggingIds |-> <<>>, tree |-> NoKids, visible |-> {}, lastMove |-> "none"]

visibleIds == SeqToSet(flatIds(internalRoot, selectableItems))

\* ids of the rendered tree's nodes (the synthetic root is not rendered)
treeNodeIds == {internalRoot[i].id : i \in 2..Len(internalRoot)}

\* A handler that does not call onDragEnd.
NoEmission ==
  /\ emitted' = NoPayload
  /\ lastDrop' = NoDrop

\* ------------------------------------------------------------------------
\* Effects that run after a render
\* ------------------------------------------------------------------------
\* Tree.tsx "initialize selection" effect; runs when selectableItems changed.
\* A version that selects the first entry on every run:
initializeSelectionAlways(sel, anchor, ir, flat) ==
  IF Len(flat) > 0
  THEN [selectedIds |-> <<ir[flat[1].node].id>>, anchorId |-> ir[flat[1].node].id]
  ELSE [selectedIds |-> sel, anchorId |-> anchor]

\* A version that selects the first entry without making it the anchor:
initializeSelectionNoAnchor(sel, anchor, ir, flat) ==
  IF Len(sel) = 0 /\ Len(flat) > 0
  THEN [selectedIds |-> <<ir[flat[1].node].id>>, anchorId |-> anchor]
  ELSE [selectedIds |-> sel, anchorId |-> anchor]

initializeSelection(sel, anchor, ir, flat) ==
  IF Len(sel) = 0 /\ Len(flat) > 0
  THEN [selectedIds |-> <<ir[flat[1].node].id>>, anchorId |-> ir[flat[1].node].id]
  ELSE [selectedIds |-> sel, anchorId |-> anchor]

\* TreeNode.tsx auto-expand effect (lines 162-185)
shouldAutoExpand(ir, coll, hp, node) ==
  /\ nodeType(ir[node].id) = "directory"
  /\ isCollapsedIn(coll, ir[node].id)
  /\ hp.parentId = ir[node].id
  /\ Len(ir[node].children) > 0

\* no TreeNode has a pending timeout
NoTimers == [id \in NodeIds |-> 0]

\* ids with at least one pending timeout
pendingTimers == {id \in NodeIds : timers[id] > 0}

\* Lines 179-184, the effect's cleanup: the timeout held by the ref, if one
\* is still pending, is cleared.  A cleanup that clears nothing:
effectCleanupNone(pending) == pending

effectCleanup(pending) == IF pending > 0 THEN pending - 1 ELSE 0

\* Lines 164-176, the effect's body: one more timeout when shouldAutoExpand.
effectRun(pending, should) == IF should THEN pending + 1 ELSE pending

\* The timeouts after the first commit of every TreeNode of `flat`.
armedTimers(ir, flat, coll, hp) ==
  [id \in NodeIds |->
     IF findItem(ir, flat, id) = 0 THEN 0
     ELSE effectRun(0, shouldAutoExpand(ir, coll, hp, flat[findItem(ir, flat, id)].node))]

\* Line 185, the dependency array of the TreeNode `id` compared between the
\* current state and the next render.  A comparison that misses isDropTarget
\* turning false:
depsChangedOnArrival(id, coll, hp, rebuilt) ==
  \/ rebuilt
  \/ isCollapsedIn(coll, id) # isCollapsedIn(collapsed, id)
  \/ (hp.parentId = id /\ hoveredParent.parentId # id)

depsChanged(id, coll, hp, rebuilt) ==
  \/ rebuilt
  \/ isCollapsedIn(coll, id) # isCollapsedIn(collapsed, id)
  \/ (hp.parentId = id) # (hoveredParent.parentId = id)

\* The timeouts after a re-render from the current state to (ir, flat, coll,
\* hp), `pending` being the timeouts before it: a TreeNode that leaves the
\* flat sequence unmounts (cleanup), one that enters it mounts (body), one
\* that stays re-runs the effect (cleanup, then body) when one of its
\* dependencies isCollapsed, isDropTarget, node.children changed; the arrays
\* node.children are new objects whenever the node table was rebuilt.
autoExpandTimers(ir, flat, coll, hp, pending, rebuilt) ==
  LET before == SeqToSet(flatIds(internalRoot, selectableItems))
      after == SeqToSet(flatIds(ir, flat))
      should(id) == shouldAutoExpand(ir, coll, hp, flat[findItem(ir, flat, id)].node)
  IN [id \in NodeIds |->
        IF id \notin after
        THEN (IF id \notin before THEN pending[id] ELSE effectCleanup(pending[id]))
        ELSE IF id \notin before THEN effectRun(pending[id], should(id))
        ELSE IF depsChanged(id, coll, hp, rebuilt)
        THEN effectRun(effectCleanup(pending[id]), should(id))
        ELSE pending[id]]

\* A render after `collapsed` changed: re-flatten, then the effects.
RenderCollapsed(collNew, hpNew, pending) ==
  LET flatNew == useSelectableItems(internalRoot, collNew)
      sel == initializeSelection(selectedIds, anchorId, internalRoot, flatNew)
  IN /\ collapsed' = collNew
     /\ selectableItems' = flatNew
     /\ selectedIds' = sel.selectedIds
     /\ anchorId' = sel.anchorId
     /\ timers' = autoExpandTimers(internalRoot, flatNew, collNew, hpNew, pending, FALSE)
     /\ UNCHANGED <<tree, internalRoot>>

\* ------------------------------------------------------------------------
\* Initial state: the store as created (store.ts), the host's data rendered
\* ------------------------------------------------------------------------
InitWith(trees) ==
  /\ tree \in trees
  /\ internalRoot = buildInternalTree(tree)
  /\ selectableItems = useSelectableItems(buildInternalTree(tree), <<>>)
  /\ collapsed = <<>>
  /\ selectedIds = <<>>
  /\ anchorId = NullId
  /\ draggingIds = <<>>
  /\ hoveredParent = initialHoveredParent
  /\ active = NullId
  /\ timers = NoTimers
  /\ mounted = FALSE
  /\ lastMove = "none"
  /\ emitted = NoPayload
  /\ lastDrop = NoDrop
  /\ emitCount = 0

Init == InitWith(InitialTrees)

\* First commit: the effects run (initialize selection; every TreeNode runs
\* its auto-expand effect for the first time).
Mount ==
  /\ ~mounted
  /\ mounted' = TRUE
  /\ LET sel == initializeSelection(selectedIds, anchorId, internalRoot, selectableItems)
     IN /\ selectedIds' = sel.selectedIds
        /\ anchorId' = sel.anchorId
  /\ timers' = armedTimers(internalRoot, selectableItems, collapsed, hoveredParent)
  /\ UNCHANGED <<tree, internalRoot, selectableItems, collapsed, draggingIds,
                 hoveredParent, active, lastMove, emitCount>>
  /\ NoEmission

\* ------------------------------------------------------------------------
\* TreeNode.tsx: handleChevronClick -> store.toggleCollapsed
\* ------------------------------------------------------------------------
handleChevronClick(id) ==
  /\ mounted
  /\ active = NullId
  /\ id \in visibleIds
  /\ IF nodeType(id) = "directory"
     THEN RenderCollapsed(toggleCollapsedMap(collapsed, id), hoveredParent, timers)
     ELSE UNCHANGED <<tree, internalRoot, selectableItems, collapsed, selectedIds,
                      anchorId, timers>>
  /\ NoEmission
  /\ UNCHANGED <<draggingIds, hoveredParent, active, mounted, lastMove, emitCount>>

\* TreeNode.tsx: the auto-expand timeout fires -> store.setCollapsed(id, false)
autoExpandFire(id) ==
  /\ timers[id] > 0
  /\ RenderCollapsed(setCollapsedMap(collapsed, id, FALSE), hoveredParent,
                     [timers EXCEPT ![id] = @ - 1])
  /\ NoEmission
  /\ UNCHANGED <<draggingIds, hoveredParent, active, mounted, lastMove, emitCount>>

\* ------------------------------------------------------------------------
\* TreeNode.tsx: handleClick (selection)
\* ------------------------------------------------------------------------
\* The selection and anchor after a click on `id`.
\* Lines 226-232.  A slice that leaves out the entry at `end`:
rangeIdsExclusive(ids, anchorIndex, clickIndex) ==
  SubSeq(ids, Min(anchorIndex, clickIndex) + 1, Max(anchorIndex, clickIndex))

\* A slice that runs from the anchor to the click without ordering the two:
rangeIdsFromAnchor(ids, anchorIndex, clickIndex) ==
  SubSeq(ids, anchorIndex + 1, clickIndex + 1)

rangeIds(ids, anchorIndex, clickIndex) ==
  LET start == Min(anchorIndex, clickIndex)
      end == Max(anchorIndex, clickIndex)
  IN SubSeq(ids, start + 1, end + 1)

\* Lines 256-262.  A version that appends without looking for the id:
toggleIdsAppend(sel, id) == Append(sel, id)

\* A version that only ever adds:
toggleIdsAddOnly(sel, id) ==
  IF id \in SeqToSet(sel) THEN sel ELSE Append(sel, id)

toggleIds(sel, id) ==
  IF id \in SeqToSet(sel)
  THEN filterSeq(sel, SeqToSet(sel) \ {id})
  ELSE Append(sel, id)

\* Lines 276-277.  A version that forgets to move the anchor:
plainSelectKeepAnchor(anchor, id) == [selectedIds |-> <<id>>, anchorId |-> anchor]

plainSelect(anchor, id) == [selectedIds |-> <<id>>, anchorId |-> id]

clickResult(ir, flat, sel, anchor, id, shiftKey, metaKey) ==
  LET anchorIndex == findIndex(flatIds(ir, flat), anchor)
      clickIndex == findIndex(flatIds(ir, flat), id)
  IN IF shiftKey /\ anchor # NullId /\ anchorIndex # -1 /\ clickIndex # -1
     THEN [selectedIds |-> rangeIds(flatIds(ir, flat), anchorIndex, clickIndex),
           anchorId |-> anchor]
     ELSE IF metaKey
     THEN [selectedIds |-> toggleIds(sel, id), anchorId |-> anchor]
     ELSE plainSelect(anchor, id)

handleClick(id, shiftKey, metaKey) ==
  /\ mounted
  /\ active = NullId
  /\ id \in visibleIds
  /\ LET r == clickResult(internalRoot, selectableItems, selectedIds, anchorId,
                          id, shiftKey, metaKey)
     IN /\ selectedIds' = r.selectedIds
        /\ anchorId' = r.anchorId
  /\ UNCHANGED <<tree, internalRoot, selectableItems, collapsed, draggingIds,
                 hoveredParent, active, timers, mounted, lastMove, emitCount>>
  /\ NoEmission

\* A click whose resulting selection stays within MaxSelected ids.
boundedClick(id, shiftKey, metaKey) ==
  /\ Len(clickResult(internalRoot, selectableItems, selectedIds, anchorId,
                     id, shiftKey, metaKey).selectedIds) <= MaxSelected
  /\ handleClick(id, shiftKey, metaKey)

\* ------------------------------------------------------------------------
\* Tree.tsx: handleDragStart
\* ------------------------------------------------------------------------
\* The caller contract of the raw data: ids are unique across the tree.
uniqueIds(ir) == Cardinality({ir[i].id : i \in 1..Len(ir)}) = Len(ir)

\* Lines 156-161: what setDraggingIds receives.  A version that always
\* drags the grabbed item alone:
startDraggingIdsOnlyActive(sel, activeId) == <<activeId>>

startDraggingIds(sel, activeId) ==
  IF activeId \in SeqToSet(sel) THEN sel ELSE <<activeId>>

handleDragStart(activeId) ==
  /\ mounted
  /\ active = NullId
  /\ emitCount < MaxDrops
  /\ uniqueIds(internalRoot)
  /\ activeId \in visibleIds
  /\ active' = activeId
  /\ draggingIds' = startDraggingIds(selectedIds, activeId)
  /\ IF activeId \in SeqToSet(selectedIds)
     THEN UNCHANGED <<selectedIds, anchorId>>
     ELSE /\ selectedIds' = <<activeId>>
          /\ anchorId' = activeId
  /\ lastMove' = "none"
  /\ UNCHANGED <<tree, internalRoot, selectableItems, collapsed, hoveredParent,
                 timers, mounted, emitCount>>
  /\ NoEmission

\* ------------------------------------------------------------------------
\* Tree.tsx: handleDragMove
\* ------------------------------------------------------------------------
\* Pointer ratios in hundredths (ratio = relativeY / overRect.height is not
\* clamped): below 0, the band edges 0.25, 0.5 and 0.75 themselves, above 1.
Ratios == {-20, 25, 50, 75, 120}

\* over is null, a catch zone, or the droppable of a tree node (which may
\* have left the flat sequence by the time the event is handled).
OverTargets == {NullId, CatchZoneStart, CatchZoneEnd} \cup treeNodeIds

\* active.rect.current.translated is either null (the ratio is then never
\* computed) or a rectangle giving one of the ratios.  The handler reads the
\* rectangles only when a tree node is hovered.
MoveGeometry(over) ==
  IF over \in NodeIds
  THEN {[ratio |-> r, hasRect |-> TRUE] : r \in Ratios}
         \cup {[ratio |-> 50, hasRect |-> FALSE]}
  ELSE {[ratio |-> 50, hasRect |-> TRUE]}

catchZoneStartTarget(ir) ==
  [parentId |-> ir[1].id, parentDepth |-> ir[1].depth, index |-> 0,
   childIndex |-> 0, dropIntent |-> "above"]

\* Lines 229-239.  A version that takes the child count from the flat sequence:
catchZoneEndTargetByFlat(ir, flat) ==
  [parentId |-> ir[1].id, parentDepth |-> ir[1].depth, index |-> Len(flat),
   childIndex |-> Len(flat), dropIntent |-> "below"]

catchZoneEndTarget(ir, flat) ==
  [parentId |-> ir[1].id, parentDepth |-> ir[1].depth, index |-> Len(flat),
   childIndex |-> Len(ir[1].children), dropIntent |-> "below"]

\* Lines 273-346: the candidate for a hovered flat entry (1-based position
\* overItem) and a ratio.  targetParent is a table position.
isUpperHalfInclusive(ratio) == ratio <= 50

\* Line 308: ratio < 0.5
isUpperHalf(ratio) == ratio < 50

\* Line 323: ratio < 0.25
isTopBand(ratio) == ratio < 25

isBottomBandInclusive(ratio) == ratio >= 75

\* Line 329: ratio > 0.75
isBottomBand(ratio) == ratio > 75

resolveTarget(ir, flat, coll, overItem, ratio) ==
  LET overNode == flat[overItem].node
      isOverDirectory == nodeType(ir[overNode].id) = "directory"
      isOverCollapsed == isCollapsedIn(coll, ir[overNode].id)
      isOverExpanded == isOverDirectory /\ ~isOverCollapsed
      hasChildren == Len(ir[overNode].children) > 0
      above == [targetParent |-> ir[overNode].parent,
                targetChildIndex |-> getChildIndex(ir, overNode),
                dropIntent |-> "above",
                flatIndex |-> flat[overItem].index]
      below == [targetParent |-> ir[overNode].parent,
                targetChildIndex |-> getChildIndex(ir, overNode) + 1,
                dropIntent |-> "below",
                flatIndex |-> flat[overItem].index + 1]
      inside == [targetParent |-> overNode,
                 targetChildIndex |-> 0,
                 dropIntent |-> "inside",
                 flatIndex |-> IF isOverExpanded /\ hasChildren
                               THEN flat[overItem].index + 1
                               ELSE flat[overItem].index]
  IN IF ~isOverDirectory
     THEN (IF isUpperHalf(ratio) THEN above ELSE below)
     ELSE IF isTopBand(ratio) THEN above
     ELSE IF isBottomBand(ratio) /\ ~isOverExpanded THEN below
     ELSE inside

\* Lines 357-366.  A check that looks at the first dragged id only:
createsCycleFirstOnly(ir, targetParent, dragIds) ==
  /\ targetParent # 0
  /\ hasAncestor(ir, targetParent, dragIds[1])

\* Lines 357-366: some dragged id is the target parent or one of its ancestors.
createsCycle(ir, targetParent, dragIds) ==
  /\ targetParent # 0
  /\ \E i \in 1..Len(dragIds) : hasAncestor(ir, targetParent, dragIds[i])

\* Line 363: an illegal candidate returns without touching the store.
\* A version that resets the hover instead ("or clear it").
rejectedHoverCleared(hp) == initialHoveredParent

rejectedHover(hp) == hp

\* Lines 372-378
\* Lines 372-378.  A version that leaves parentDepth out of the committed value:
committedHoverNoDepth(ir, cand) ==
  [parentId |-> IF cand.targetParent = 0 THEN NullId ELSE ir[cand.targetParent].id,
   parentDepth |-> NullNum,
   index |-> cand.flatIndex,
   childIndex |-> cand.targetChildIndex,
   dropIntent |-> cand.dropIntent]

committedHover(ir, cand) ==
  [parentId |-> IF cand.targetParent = 0 THEN NullId ELSE ir[cand.targetParent].id,
   parentDepth |-> IF cand.targetParent = 0 THEN NullNum ELSE ir[cand.targetParent].depth,
   index |-> cand.flatIndex,
   childIndex |-> cand.targetChildIndex,
   dropIntent |-> cand.dropIntent]

\* Lines 195-204: no `over`.  A version that leaves the hover as it is:
clearedHoverKept(hp) == hp

clearedHover(hp) == initialHoveredParent

\* Lines 246-249.  A lookup that falls back to the first entry:
findOverItemOrFirst(ir, flat, over) ==
  IF findItem(ir, flat, over) = 0 THEN 1 ELSE findItem(ir, flat, over)

findOverItem(ir, flat, over) == findItem(ir, flat, over)

\* The outcomes in which the handler called setHoveredParent (lines 196,
\* 220, 233, 372), i.e. store.set({hoveredParent: hp}): a new state object
\* replaces the store's and every subscriber is notified.
storeWrites(outcome) == outcome \in {"cleared", "catch", "committed"}

\* The hoveredParent after the event and what the handler did.
dragMoveResult(ir, flat, coll, hp, dragIds, over, ratio, hasRect) ==
  IF over = NullId THEN [hp |-> clearedHover(hp), outcome |-> "cleared"]
  ELSE IF over = CatchZoneStart
  THEN [hp |-> catchZoneStartTarget(ir), outcome |-> "catch"]
  ELSE IF over = CatchZoneEnd
  THEN [hp |-> catchZoneEndTarget(ir, flat), outcome |-> "catch"]
  ELSE LET overItem == findOverItem(ir, flat, over)
       IN IF overItem = 0 THEN [hp |-> hp, outcome |-> "noentry"]
          ELSE IF ~hasRect THEN [hp |-> hp, outcome |-> "norect"]
          ELSE LET cand == resolveTarget(ir, flat, coll, overItem, ratio)
               IN IF createsCycle(ir, cand.targetParent, dragIds)
                  THEN [hp |-> rejectedHover(hp), outcome |-> "rejected"]
                  ELSE [hp |-> committedHover(ir, cand), outcome |-> "committed"]

handleDragMove(over, ratio, hasRect) ==
  /\ active # NullId
  /\ LET r == dragMoveResult(internalRoot, selectableItems, collapsed, hoveredParent,
                             draggingIds, over, ratio, hasRect)
     IN /\ hoveredParent' = r.hp
        /\ lastMove' = IF r.outcome = "rejected" THEN "rejected" ELSE "other"
        /\ timers' = autoExpandTimers(internalRoot, selectableItems, collapsed, r.hp,
                                      timers, FALSE)
  /\ UNCHANGED <<tree, internalRoot, selectableItems, collapsed, selectedIds,
                 anchorId, draggingIds, active, mounted, emitCount>>
  /\ NoEmission

\* ------------------------------------------------------------------------
\* store.ts: clearDragState
\* ------------------------------------------------------------------------
\* A cleanup that forgets the hover target.
clearDragStateKeepHover ==
  /\ draggingIds' = <<>>
  /\ UNCHANGED hoveredParent

clearDragState ==
  /\ draggingIds' = <<>>
  /\ hoveredParent' = initialHoveredParent

\* ------------------------------------------------------------------------
\* Tree.tsx: handleDragEnd
\* ------------------------------------------------------------------------
\* Lines 425-427: dragging ids resolved through the flat sequence, in drag
\* order; ids without a flat entry are dropped.  Table positions.
\* A version that walks the flat sequence and keeps the dragged entries:
resolveDraggedFlatOrder(ir, flat, dragIds) ==
  LET isDragged(e) == ir[e.node].id \in SeqToSet(dragIds)
      kept == SelectSeq(flat, isDragged)
  IN [i \in 1..Len(kept) |-> kept[i].node]

RECURSIVE resolveDragged(_, _, _)
resolveDragged(ir, flat, dragIds) ==
  IF dragIds = <<>> THEN <<>>
  ELSE LET pos == findItem(ir, flat, Head(dragIds))
           rest == resolveDragged(ir, flat, Tail(dragIds))
       IN IF pos = 0 THEN rest ELSE <<flat[pos].node>> \o rest

\* Lines 435-439.  A version that only compares with the target itself:
isValidDraggedSelfOnly(ir, targetParent, node) ==
  ir[node].id # ir[targetParent].id

isValidDragged(ir, targetParent, node) ==
  /\ ir[node].id # ir[targetParent].id
  /\ ~hasAncestor(ir, targetParent, ir[node].id)

RECURSIVE filterValid(_, _, _)
filterValid(ir, targetParent, nodes) ==
  IF nodes = <<>> THEN <<>>
  ELSE IF isValidDragged(ir, targetParent, Head(nodes))
       THEN <<Head(nodes)>> \o filterValid(ir, targetParent, Tail(nodes))
       ELSE filterValid(ir, targetParent, Tail(nodes))

\* Lines 462-468, one iteration of the loop for a dragged id found at
\* existingIndex.  A version that always decrements:
removeExistingAlwaysDecrement(acc, existingIndex) ==
  [children |-> removeAt(acc.children, existingIndex), insertAt |-> acc.insertAt - 1]

removeExisting(acc, existingIndex) ==
  [children |-> removeAt(acc.children, existingIndex),
   insertAt |-> IF existingIndex < acc.insertAt THEN acc.insertAt - 1 ELSE acc.insertAt]

\* Lines 454-469: acc = [children, insertAt], ids of the valid nodes in order.
RECURSIVE adjustInsert(_, _)
adjustInsert(acc, validIds) ==
  IF validIds = <<>> THEN acc
  ELSE LET existingIndex == findIndex(acc.children, Head(validIds))
       IN adjustInsert(IF existingIndex # -1 THEN removeExisting(acc, existingIndex)
                       ELSE acc,
                       Tail(validIds))

\* Line 410.  A version that does not look at event.over:
noDropTargetIgnoringOver(hp, overPresent) ==
  hp.parentId = NullId \/ hp.childIndex = NullNum

noDropTarget(hp, overPresent) ==
  ~overPresent \/ hp.parentId = NullId \/ hp.childIndex = NullNum

\* The payload handleDragEnd passes to onDragEnd, NoPayload when it returns
\* early.  overPresent is event.over # null.
dragEndPayload(ir, flat, hp, dragIds, overPresent) ==
  IF noDropTarget(hp, overPresent) THEN NoPayload
  ELSE LET targetParent == findNodeById(ir, hp.parentId)
       IN IF targetParent = 0 THEN NoPayload
          ELSE LET draggedNodes == resolveDragged(ir, flat, dragIds)
                   validNodes == filterValid(ir, targetParent, draggedNodes)
                   validIds == [i \in 1..Len(validNodes) |-> ir[validNodes[i]].id]
                   adj == adjustInsert([children |-> childIds(ir, targetParent),
                                        insertAt |-> hp.childIndex], validIds)
               IN IF Len(draggedNodes) = 0 THEN NoPayload
                  ELSE IF Len(validNodes) = 0 THEN NoPayload
                  ELSE [items |-> validIds,
                        parent |-> ir[targetParent].id,
                        children |-> adj.children,
                        insertAt |-> adj.insertAt]

\* A render after the raw tree changed: rebuild, re-flatten, then the effects
\* (hoveredParent has just been cleared).
RenderTree(kidsNew) ==
  LET irNew == buildInternalTree(kidsNew)
      flatNew == useSelectableItems(irNew, collapsed)
      sel == initializeSelection(selectedIds, anchorId, irNew, flatNew)
  IN /\ tree' = kidsNew
     /\ internalRoot' = irNew
     /\ selectableItems' = flatNew
     /\ selectedIds' = sel.selectedIds
     /\ anchorId' = sel.anchorId
     /\ timers' = autoExpandTimers(irNew, flatNew, collapsed, initialHoveredParent,
                                   timers, TRUE)

handleDragEnd(overPresent) ==
  /\ active # NullId
  /\ active' = NullId
  /\ lastMove' = "none"
  /\ clearDragState
  /\ lastDrop' = [dropped |-> TRUE, over |-> overPresent,
                  hoveredParent |-> hoveredParent, draggingIds |-> draggingIds,
                  tree |-> tree, visible |-> visibleIds, lastMove |-> lastMove]
  /\ LET payload == dragEndPayload(internalRoot, selectableItems, hoveredParent,
                                   draggingIds, overPresent)
     IN IF payload = NoPayload
        THEN /\ emitted' = NoPayload
             /\ timers' = autoExpandTimers(internalRoot, selectableItems, collapsed,
                                           initialHoveredParent, timers, FALSE)
             /\ UNCHANGED <<tree, internalRoot, selectableItems, selectedIds, anchorId,
                            emitCount>>
        ELSE /\ emitted' = payload
             /\ emitCount' = emitCount + 1
             /\ RenderTree(onDragEnd(tree, payload))
  /\ UNCHANGED <<collapsed, mounted>>

\* ------------------------------------------------------------------------
\* Tree.tsx: handleDragCancel
\* ------------------------------------------------------------------------
handleDragCancel ==
  /\ active # NullId
  /\ active' = NullId
  /\ lastMove' = "none"
  /\ clearDragState
  /\ timers' = autoExpandTimers(internalRoot, selectableItems, collapsed,
                                initialHoveredParent, timers, FALSE)
  /\ UNCHANGED <<tree, internalRoot, selectableItems, collapsed, selectedIds,
                 anchorId, mounted, emitCount>>
  /\ NoEmission

\* ------------------------------------------------------------------------
\* The engine
\* ------------------------------------------------------------------------
Next ==
  \/ Mount
  \/ \E id \in visibleIds : handleChevronClick(id)
  \/ \E id \in pendingTimers : autoExpandFire(id)
  \/ \E id \in visibleIds, shiftKey \in BOOLEAN, metaKey \in BOOLEAN :
       boundedClick(id, shiftKey, metaKey)
  \/ \E id \in visibleIds : handleDragStart(id)
  \/ \E over \in OverTargets : \E move \in MoveGeometry(over) :
       handleDragMove(over, move.ratio, move.hasRect)
  \/ \E overPresent \in BOOLEAN : handleDragEnd(overPresent)
  \/ handleDragCancel

Spec == Init /\ [][Next]_vars

\* ------------------------------------------------------------------------
\* The flattener on arbitrary trees: every arrangement of the five nodes
\* under the root and the two directories, with the siblings in one of three
\* orders, and the empty tree; the collapse map evolves by chevron clicks.
\* ------------------------------------------------------------------------
ParentMaps ==
  {p \in [NodeIds -> Dirs \cup {ROOT}] :
     /\ p["A"] # "A"
     /\ p["C"] # "C"
     /\ ~(p["A"] = "C" /\ p["C"] = "A")}

SiblingOrders ==
  {<<"A", "C", "A1", "A2", "B">>,
   <<"A1", "A", "A2", "C", "B">>,
   <<"B", "A2", "C", "A1", "A">>}

treeOf(p, ord) == [x \in AllIds |-> filterSeq(ord, {n \in NodeIds : p[n] = x})]

AnyTrees == {treeOf(p, ord) : p \in ParentMaps, ord \in SiblingOrders} \cup {NoKids}

InitFlatten == InitWith(AnyTrees)

NextFlatten ==
  \/ Mount
  \/ \E id \in visibleIds : handleChevronClick(id)

SpecFlatten == InitFlatten /\ [][NextFlatten]_vars

\* ------------------------------------------------------------------------
\* The completion resolver on arbitrary inputs: a gesture in progress with
\* any dragged set and any hover target the resolver can produce, whether or
\* not it is legal for that dragged set, released with or without `over`.
\* The store keeps draggingIds and hoveredParent by id while internalRoot is
\* rebuilt from whatever `data` the host passes, so a host that re-renders
\* with other data between the last move and the release leaves a target
\* the hover-time check never saw against this tree; handleDragEnd
\* re-validates (lines 418-441) instead of relying on that check.
\* ------------------------------------------------------------------------
\* root -> [A1, A2, B, A, C]
FiveList == [NoKids EXCEPT ![ROOT] = <<"A1", "A2", "B", "A", "C">>]

\* root -> [A(dir)[A1, A2], B]
EndToEndTree == [NoKids EXCEPT ![ROOT] = <<"A", "B">>, !["A"] = <<"A1", "A2">>]

\* root -> [A(dir)[C(dir)[A1, A2]], B]
DeepTree == [NoKids EXCEPT ![ROOT] = <<"A", "B">>,
                           !["A"] = <<"C">>,
                           !["C"] = <<"A1", "A2">>]

CompletionTrees == {FiveList, EndToEndTree, DeepTree}

\* Sequences of distinct ids of S of length 1..n
RECURSIVE distinctSeqs(_, _)
distinctSeqs(S, n) ==
  IF n = 0 THEN {<<>>}
  ELSE LET shorter == distinctSeqs(S, n - 1)
       IN shorter \cup {Append(q, x) : q \in shorter, x \in S}

DragSets(S) == {q \in distinctSeqs(S, MaxSelected) :
                  Len(q) >= 1 /\ Cardinality(SeqToSet(q)) = Len(q)}

hoverValues(ir, flat, coll) ==
  {initialHoveredParent, catchZoneStartTarget(ir), catchZoneEndTarget(ir, flat)}
    \cup {committedHover(ir, resolveTarget(ir, flat, coll, i, r)) :
            i \in 1..Len(flat), r \in Ratios}

\* Targets committed against an earlier `data` whose parent directory is no
\* longer in the tree (findNodeById at line 418 then returns null).
staleHoverValues(ir) ==
  {[parentId |-> p, parentDepth |-> 1, index |-> 0, childIndex |-> 0,
    dropIntent |-> "inside"] : p \in Dirs \ {ir[i].id : i \in 1..Len(ir)}}

InitCompletion ==
  /\ tree \in CompletionTrees
  /\ collapsed \in {<<>>, "A" :> TRUE}
  /\ internalRoot = buildInternalTree(tree)
  /\ selectableItems = useSelectableItems(buildInternalTree(tree), collapsed)
  /\ draggingIds \in DragSets(subtreeIds(tree, ROOT) \ {ROOT})
  /\ selectedIds = draggingIds
  /\ anchorId = draggingIds[1]
  /\ active \in SeqToSet(draggingIds)
  /\ active \in SeqToSet(flatIds(internalRoot, selectableItems))
  /\ hoveredParent \in hoverValues(internalRoot, selectableItems, collapsed)
                        \cup staleHoverValues(internalRoot)
  /\ timers = armedTimers(internalRoot, selectableItems, collapsed, hoveredParent)
  /\ mounted = TRUE
  /\ lastMove = "other"
  /\ emitted = NoPayload
  /\ emitCount = 0
  /\ lastDrop = NoDrop

NextCompletion == \E overPresent \in BOOLEAN : handleDragEnd(overPresent)

SpecCompletion == InitCompletion /\ [][NextCompletion]_vars

\* ------------------------------------------------------------------------
\* Selection on its own: clicks with every modifier combination and chevron
\* clicks on a nested tree and on the empty tree, selections of any length.
\* ------------------------------------------------------------------------
SelectionTrees == {DeepTree, NoKids}

InitSelection == InitWith(SelectionTrees)

NextSelection ==
  \/ Mount
  \/ \E id \in visibleIds : handleChevronClick(id)
  \/ \E id \in visibleIds, shiftKey \in BOOLEAN, metaKey \in BOOLEAN :
       handleClick(id, shiftKey, metaKey)

SpecSelection == InitSelection /\ [][NextSelection]_vars

\* ------------------------------------------------------------------------
\* Selection followed by a drag start: the same clicks and chevron clicks,
\* then one of the visible items is grabbed; the gesture is cancelled
\* before any move.
\* ------------------------------------------------------------------------
NextDragStart ==
  \/ NextSelection
  \/ \E id \in visibleIds : handleDragStart(id)
  \/ handleDragCancel

SpecDragStart == InitSelection /\ [][NextDragStart]_vars

\* ------------------------------------------------------------------------
\* The hover resolver on its own: a gesture in progress with any dragged
\* set, on a tree with leaves at two depths, a directory with children and
\* an empty one, each collapsed or expanded; move events at ratios around
\* every band edge and outside [0, 1]; pending auto-expand timers may fire.
\* ------------------------------------------------------------------------
\* root -> [A(dir)[A1, A2], C(dir), B]
HoverTree == [NoKids EXCEPT ![ROOT] = <<"A", "C", "B">>, !["A"] = <<"A1", "A2">>]

HoverTrees == {HoverTree, DeepTree}

HoverRatios == {-20, 0, 24, 25, 49, 50, 75, 76, 100, 120}

InitHover ==
  /\ tree \in HoverTrees
  /\ collapsed \in {<<>>, "A" :> TRUE, "C" :> TRUE, ("A" :> TRUE) @@ ("C" :> TRUE)}
  /\ internalRoot = buildInternalTree(tree)
  /\ selectableItems = useSelectableItems(buildInternalTree(tree), collapsed)
  /\ draggingIds \in DragSets(subtreeIds(tree, ROOT) \ {ROOT})
  /\ selectedIds = draggingIds
  /\ anchorId = draggingIds[1]
  /\ active \in SeqToSet(draggingIds)
  /\ active \in SeqToSet(flatIds(internalRoot, selectableItems))
  /\ hoveredParent = initialHoveredParent
  /\ timers = NoTimers
  /\ mounted = TRUE
  /\ lastMove = "none"
  /\ emitted = NoPayload
  /\ emitCount = 0
  /\ lastDrop = NoDrop

NextHover ==
  \/ \E over \in OverTargets, ratio \in HoverRatios : handleDragMove(over, ratio, TRUE)
  \/ \E id \in pendingTimers : autoExpandFire(id)

SpecHover == InitHover /\ [][NextHover]_vars

\* ------------------------------------------------------------------------
\* The collapse map on its own: the store's two collapse actions applied to
\* any directory of any tree, in any order and any number of times.
\* ------------------------------------------------------------------------
\* store.setCollapsed(id, value), followed by the render it causes
setCollapsed(id, value) ==
  /\ mounted
  /\ RenderCollapsed(setCollapsedMap(collapsed, id, value), hoveredParent, timers)
  /\ NoEmission
  /\ UNCHANGED <<draggingIds, hoveredParent, active, mounted, lastMove, emitCount>>

InitStore == InitWith(AnyTrees)

NextStore ==
  \/ Mount
  \/ \E id \in visibleIds : handleChevronClick(id)
  \/ \E id \in treeNodeIds \cap Dirs, value \in BOOLEAN : setCollapsed(id, value)

SpecStore == InitStore /\ [][NextStore]_vars

\* ------------------------------------------------------------------------
\* The auto-expand timer left alone: one node is dragged and the hover
\* target is any value the resolver commits for the dragged set; move events
\* keep arriving but none changes the hover target, nothing is dropped or
\* cancelled.  A pending timeout fires once its delay has passed
\* (setTimeout, TreeNode.tsx lines 173-175), hence the weak fairness.
\* ------------------------------------------------------------------------
legalHoverValues(ir, flat, coll, dragIds) ==
  {hp \in hoverValues(ir, flat, coll) :
     ~createsCycle(ir, findNodeById(ir, hp.parentId), dragIds)}

InitAutoExpand ==
  /\ tree \in HoverTrees
  /\ collapsed \in {<<>>, "A" :> TRUE, "C" :> TRUE, ("A" :> TRUE) @@ ("C" :> TRUE)}
  /\ internalRoot = buildInternalTree(tree)
  /\ selectableItems = useSelectableItems(buildInternalTree(tree), collapsed)
  /\ draggingIds \in {<<id>> : id \in subtreeIds(tree, ROOT) \ {ROOT}}
  /\ selectedIds = draggingIds
  /\ anchorId = draggingIds[1]
  /\ active \in SeqToSet(draggingIds)
  /\ active \in SeqToSet(flatIds(internalRoot, selectableItems))
  /\ hoveredParent \in legalHoverValues(internalRoot, selectableItems, collapsed,
                                        draggingIds)
  /\ timers = armedTimers(internalRoot, selectableItems, collapsed, hoveredParent)
  /\ mounted = TRUE
  /\ lastMove = "none"
  /\ emitted = NoPayload
  /\ emitCount = 0
  /\ lastDrop = NoDrop

\* a move event that leaves the hover target where it is
steadyMove(over, ratio) ==
  /\ handleDragMove(over, ratio, TRUE)
  /\ hoveredParent' = hoveredParent

NextAutoExpand ==
  \/ \E over \in OverTargets, ratio \in Ratios : steadyMove(over, ratio)
  \/ \E id \in pendingTimers : autoExpandFire(id)

SpecAutoExpand ==
  /\ InitAutoExpand
  /\ [][NextAutoExpand]_vars
  /\ WF_vars(\E id \in NodeIds : autoExpandFire(id))

\* ========================================================================
\* Properties
\* ========================================================================
\* Tree relations read off the raw tree, independently of the node table.
descendantsOf(kids, id) == subtreeIds(kids, id) \ {id}

\* the ids among `ids` that are `target` or one of its ancestors in `kids`
ancestorsOrSelfAmong(kids, ids, target) == {d \in ids : target \in subtreeIds(kids, d)}

RECURSIVE preorderOf(_, _)
RECURSIVE preorderOfAll(_, _, _)
preorderOf(kids, id) == <<id>> \o preorderOfAll(kids, kids[id], 1)

preorderOfAll(kids, cs, i) ==
  IF i > Len(cs) THEN <<>>
  ELSE preorderOf(kids, cs[i]) \o preorderOfAll(kids, cs, i + 1)

\* non-root nodes with no collapsed proper ancestor
shownIds(kids, coll) ==
  {x \in subtreeIds(kids, ROOT) \ {ROOT} :
     \A a \in NodeIds : (x \in descendantsOf(kids, a)) => ~isCollapsedIn(coll, a)}

currentFlatIds == flatIds(internalRoot, selectableItems)

\* ------------------------------------------------------------------------
\* C1  Hover-time cycle validation: whenever hoveredParent names a parent,
\* that node is neither one of the dragged nodes nor a descendant of one.
\* ------------------------------------------------------------------------
C1_HoverTargetOutsideDragged ==
  hoveredParent.parentId # NullId =>
    ancestorsOrSelfAmong(tree, SeqToSet(draggingIds), hoveredParent.parentId) = {}

\* a directory with children is being dragged and a target has been committed
C1_Witness ==
  /\ active # NullId
  /\ lastMove = "other"
  /\ hoveredParent.parentId # NullId
  /\ \E d \in SeqToSet(draggingIds) : tree[d] # <<>>

\* ------------------------------------------------------------------------
\* C2  Completion-time cycle validation: the items of an emitted payload are
\* exactly the dragged nodes found in the flat sequence that are neither the
\* target parent nor one of its ancestors; if there is none, nothing is
\* emitted.
\* ------------------------------------------------------------------------
C2_PayloadItemsOutsideTargetChain ==
  lastDrop.dropped =>
    LET target == lastDrop.hoveredParent.parentId
        resolved == SeqToSet(lastDrop.draggingIds) \cap lastDrop.visible
        invalid == ancestorsOrSelfAmong(lastDrop.tree, resolved, target)
    IN /\ emitted # NoPayload =>
            /\ emitted.parent = target
            /\ SeqToSet(emitted.items) = resolved \ invalid
            /\ ancestorsOrSelfAmong(lastDrop.tree, SeqToSet(emitted.items),
                                    emitted.parent) = {}
       /\ resolved \ invalid = {} => emitted = NoPayload

\* one dragged node was discarded as an ancestor of the target, another emitted
C2_Witness ==
  /\ lastDrop.dropped
  /\ emitted # NoPayload
  /\ ancestorsOrSelfAmong(lastDrop.tree,
                          SeqToSet(lastDrop.draggingIds) \cap lastDrop.visible,
                          emitted.parent) # {}

\* ------------------------------------------------------------------------
\* C3  Completion index adjustment: payload.children is the target's child
\* list without the emitted items, payload.insertAt counts the remaining
\* children that stood before hoveredTarget.childIndex; with the three
\* worked examples of the specification.
\* ------------------------------------------------------------------------
C3_CompletionIndexAdjustment ==
  (lastDrop.dropped /\ emitted # NoPayload) =>
    LET P == emitted.parent
        ch == lastDrop.tree[P]
        k == lastDrop.hoveredParent.childIndex
        V == SeqToSet(emitted.items)
    IN /\ emitted.children = filterSeq(ch, SeqToSet(ch) \ V)
       /\ emitted.insertAt = Cardinality({j \in 1..Len(ch) : j - 1 < k /\ ch[j] \notin V})
       /\ (lastDrop.tree = FiveList /\ lastDrop.draggingIds = <<"B">>
             /\ P = ROOT /\ k = 0)
            => (Len(emitted.children) = 4 /\ emitted.insertAt = 0)
       /\ (lastDrop.tree = FiveList /\ lastDrop.draggingIds = <<"A1">>
             /\ P = ROOT /\ k = 4)
            => emitted.insertAt = 3
       /\ (lastDrop.tree = EndToEndTree /\ lastDrop.draggingIds = <<"B">>
             /\ P = "A" /\ lastDrop.hoveredParent.dropIntent = "inside")
            => (emitted.children = <<"A1", "A2">> /\ emitted.insertAt = 0)

\* the first of five siblings released at childIndex 4
C3_Witness ==
  /\ lastDrop.dropped
  /\ lastDrop.tree = FiveList
  /\ lastDrop.hoveredParent.childIndex = 4
  /\ emitted = [items |-> <<"A1">>, parent |-> ROOT,
                children |-> <<"A2", "B", "A", "C">>, insertAt |-> 3]

\* ------------------------------------------------------------------------
\* C4  Flatten correctness: the flat sequence lists exactly the non-root
\* nodes without a collapsed proper ancestor, once each, in pre-order.
\* ------------------------------------------------------------------------
C4_FlattenCorrect ==
  /\ currentFlatIds =
       filterSeq(Tail(preorderOf(tree, ROOT)), shownIds(tree, collapsed))
  /\ ROOT \notin SeqToSet(currentFlatIds)
  /\ Cardinality(SeqToSet(currentFlatIds)) = Len(currentFlatIds)
  /\ \A c \in Dirs : (c \in shownIds(tree, collapsed)) => c \in SeqToSet(currentFlatIds)

\* a collapsed container is listed while its children are hidden
C4_Witness ==
  \E c \in Dirs :
    /\ isCollapsedIn(collapsed, c)
    /\ c \in visibleIds
    /\ tree[c] # <<>>
    /\ SeqToSet(tree[c]) \cap visibleIds = {}
    /\ Len(selectableItems) >= 2

\* ------------------------------------------------------------------------
\* C5  Flat index monotonicity: the entry at position i carries flatIndex i,
\* so the indices are exactly 0..n-1.
\* ------------------------------------------------------------------------
C5_FlatIndexIsPosition ==
  /\ \A i \in 1..Len(selectableItems) : selectableItems[i].index = i - 1
  /\ {selectableItems[i].index : i \in 1..Len(selectableItems)}
       = 0..(Len(selectableItems) - 1)

\* a flattening that skipped hidden nodes and still lists several entries
C5_Witness ==
  /\ Len(selectableItems) >= 3
  /\ Len(selectableItems) < Cardinality(subtreeIds(tree, ROOT)) - 1

\* ------------------------------------------------------------------------
\* C6  Collapse/expand round trip: collapsing a visible expanded container
\* removes exactly its descendants and keeps its own entry; toggling it
\* again gives back the flat sequence as it was, and no other container's
\* collapse flag changes.
\* ------------------------------------------------------------------------
C6_CollapseExpandRoundTrip ==
  \A c \in Dirs \cap visibleIds :
    ~isCollapsedIn(collapsed, c) =>
      LET once == toggleCollapsedMap(collapsed, c)
          twice == toggleCollapsedMap(once, c)
          flatOnce == useSelectableItems(internalRoot, once)
      IN /\ flatIds(internalRoot, flatOnce) =
              filterSeq(currentFlatIds, AllIds \ descendantsOf(tree, c))
         /\ c \in SeqToSet(flatIds(internalRoot, flatOnce))
         /\ useSelectableItems(internalRoot, twice) = selectableItems
         /\ \A d \in Dirs \ {c} :
              /\ isCollapsedIn(once, d) = isCollapsedIn(collapsed, d)
              /\ isCollapsedIn(twice, d) = isCollapsedIn(collapsed, d)

\* A was collapsed and expanded again while its child container C stays collapsed
C6_Witness ==
  /\ "A" \in DOMAIN collapsed
  /\ ~collapsed["A"]
  /\ "C" \in SeqToSet(tree["A"])
  /\ tree["C"] # <<>>
  /\ isCollapsedIn(collapsed, "C")
  /\ "C" \in visibleIds
  /\ SeqToSet(tree["C"]) \cap visibleIds = {}

\* a handleDragMove step that took the early return of line 363
IllegalMoveStep ==
  /\ lastMove' = "rejected"
  /\ \E over \in OverTargets : \E move \in MoveGeometry(over) :
       handleDragMove(over, move.ratio, move.hasRect)

\* ------------------------------------------------------------------------
\* C7  A move event whose candidate is illegal changes nothing: hoveredParent
\* keeps its value and the rest of the store, the tree and the timers are
\* untouched.
\* ------------------------------------------------------------------------
C7_IllegalMoveKeepsHover ==
  [][IllegalMoveStep =>
       /\ hoveredParent' = hoveredParent
       /\ UNCHANGED <<tree, internalRoot, selectableItems, collapsed, selectedIds,
                      anchorId, draggingIds, active, timers, emitCount>>]_vars

\* an illegal move was discarded while a target was on display
C7_Witness ==
  /\ active # NullId
  /\ lastMove = "rejected"
  /\ hoveredParent.parentId # NullId

\* ------------------------------------------------------------------------
\* C8  Dropping into self/descendant is a silent no-op: a release at a
\* position whose candidate was rejected as cycle-forming emits no payload
\* and leaves the raw tree as it was.
\* ------------------------------------------------------------------------
C8_IllegalReleaseIsNoOp ==
  (lastDrop.dropped /\ lastDrop.over /\ lastDrop.lastMove = "rejected") =>
    (emitted = NoPayload /\ tree = lastDrop.tree)

\* ------------------------------------------------------------------------
\* C9  Drag cleanup on every path: whenever no gesture is active, in
\* particular right after a drop (payload or not) or a cancel, draggingIds
\* is empty and hoveredParent is the all-null default.
\* ------------------------------------------------------------------------
C9_DragStateClearedWhenIdle ==
  active = NullId =>
    (draggingIds = <<>> /\ hoveredParent = initialHoveredParent)

\* a drop that returned early although a target was hovered
C9_Witness ==
  /\ lastDrop.dropped
  /\ lastDrop.hoveredParent.parentId # NullId
  /\ lastDrop.draggingIds # <<>>
  /\ emitted = NoPayload
  /\ draggingIds = <<>>
  /\ hoveredParent = initialHoveredParent

\* a release with a drop location, a hovered target and a valid dragged node
validDrop(ld) ==
  /\ ld.dropped
  /\ ld.over
  /\ ld.hoveredParent.parentId # NullId
  /\ ld.hoveredParent.childIndex # NullNum
  /\ (SeqToSet(ld.draggingIds) \cap ld.visible)
       \ ancestorsOrSelfAmong(ld.tree, SeqToSet(ld.draggingIds),
                              ld.hoveredParent.parentId) # {}

\* ------------------------------------------------------------------------
\* C10  A payload is emitted exactly by a drop that has a drop location, a
\* hovered target and at least one valid dragged node, once; no other step
\* (move, cancel, drop without target, click, timer) emits.
\* ------------------------------------------------------------------------
C10_EmittedOncePerValidDrop ==
  [][/\ emitCount' = emitCount + (IF validDrop(lastDrop') THEN 1 ELSE 0)
     /\ (emitted' # NoPayload) <=> validDrop(lastDrop')]_vars

\* a gesture with a committed target was dropped and emitted its payload
C10_Witness ==
  /\ lastDrop.dropped
  /\ lastDrop.lastMove = "other"
  /\ lastDrop.hoveredParent.dropIntent = "inside"
  /\ emitted # NoPayload
  /\ emitCount = 1

\* ------------------------------------------------------------------------
\* C11  Completion with no target produces nothing: a release with a null
\* parentId, a null childIndex, no drop location, or a target parent that is
\* not in the tree emits no payload and leaves the raw tree unchanged.
\* ------------------------------------------------------------------------
C11_NoTargetProducesNothing ==
  (/\ lastDrop.dropped
   /\ \/ lastDrop.hoveredParent.parentId = NullId
      \/ lastDrop.hoveredParent.childIndex = NullNum
      \/ ~lastDrop.over
      \/ lastDrop.hoveredParent.parentId \notin subtreeIds(lastDrop.tree, ROOT))
    => (emitted = NoPayload /\ tree = lastDrop.tree)

\* a release with a drop location and a target whose directory left the tree
C11_Witness ==
  /\ lastDrop.dropped
  /\ lastDrop.over
  /\ lastDrop.hoveredParent.parentId \in Dirs
  /\ lastDrop.hoveredParent.parentId \notin subtreeIds(lastDrop.tree, ROOT)
  /\ SeqToSet(lastDrop.draggingIds) \cap lastDrop.visible # {}
  /\ emitted = NoPayload

\* flat index of the visible entry with the id (the id must be visible)
flatIndexOf(id) ==
  (CHOOSE i \in 1..Len(selectableItems) :
     internalRoot[selectableItems[i].node].id = id) - 1

\* ids of the visible entries whose flat index lies between those of a and b
idsBetween(a, b) ==
  {internalRoot[selectableItems[i].node].id :
     i \in {j \in 1..Len(selectableItems) :
              /\ selectableItems[j].index >= Min(flatIndexOf(a), flatIndexOf(b))
              /\ selectableItems[j].index <= Max(flatIndexOf(a), flatIndexOf(b))}}

\* ------------------------------------------------------------------------
\* C12  Range select with the anchor and the target both in the flat
\* sequence: selectedIds becomes exactly the ids of the visible entries
\* between the two (inclusive), each once, whatever was selected before, and
\* anchorId is unchanged.
\* ------------------------------------------------------------------------
C12_RangeSelect ==
  [][\A id \in visibleIds, metaKey \in BOOLEAN :
       (handleClick(id, TRUE, metaKey) /\ anchorId \in visibleIds) =>
         /\ SeqToSet(selectedIds') = idsBetween(anchorId, id)
         /\ Len(selectedIds') = Cardinality(idsBetween(anchorId, id))
         /\ anchorId' = anchorId]_vars

\* a range of four entries selected upwards from the anchor B, replacing A1
C12_Witness ==
  /\ anchorId = "B"
  /\ selectedIds = <<"C", "A1", "A2", "B">>

\* ------------------------------------------------------------------------
\* C13  Range select whose anchor is absent from the flat sequence is a
\* no-op: selectedIds and anchorId remain as they were.
\* ------------------------------------------------------------------------
C13_StaleAnchorRangeIsNoOp ==
  [][\A id \in visibleIds, metaKey \in BOOLEAN :
       (handleClick(id, TRUE, metaKey) /\ anchorId # NullId
          /\ anchorId \notin visibleIds) =>
         (selectedIds' = selectedIds /\ anchorId' = anchorId)]_vars

\* ------------------------------------------------------------------------
\* C14  Range selection symmetry: for visible a and b, plain-select a then
\* range-select b selects the same set of ids as plain-select b then
\* range-select a.
\* ------------------------------------------------------------------------
C14_RangeSymmetry ==
  \A a \in visibleIds, b \in visibleIds :
    LET pa == clickResult(internalRoot, selectableItems, selectedIds, anchorId,
                          a, FALSE, FALSE)
        pb == clickResult(internalRoot, selectableItems, selectedIds, anchorId,
                          b, FALSE, FALSE)
        ab == clickResult(internalRoot, selectableItems, pa.selectedIds, pa.anchorId,
                          b, TRUE, FALSE)
        ba == clickResult(internalRoot, selectableItems, pb.selectedIds, pb.anchorId,
                          a, TRUE, FALSE)
    IN /\ SeqToSet(ab.selectedIds) = SeqToSet(ba.selectedIds)
       /\ {a, b} \subseteq SeqToSet(ab.selectedIds)

\* a range taken downwards from the anchor C over the whole nested part
C14_Witness ==
  /\ anchorId = "C"
  /\ selectedIds = <<"C", "A1", "A2", "B">>
  /\ Len(selectableItems) = 5

\* ------------------------------------------------------------------------
\* C15  Plain select sets selectedIds to exactly the clicked id and anchorId
\* to that id, whatever they were before.
\* ------------------------------------------------------------------------
C15_PlainSelect ==
  [][\A id \in visibleIds :
       handleClick(id, FALSE, FALSE) =>
         (selectedIds' = <<id>> /\ anchorId' = id)]_vars

\* a plain click replaced a larger selection and moved the anchor
C15_Witness ==
  /\ selectedIds = <<"A2">>
  /\ anchorId = "A2"
  /\ "A" \in DOMAIN collapsed

\* ------------------------------------------------------------------------
\* C16  Toggle select flips only the clicked id's membership, keeps every
\* other id's membership and the anchor, and toggling the same id twice
\* gives back the original selected set.
\* ------------------------------------------------------------------------
C16_ToggleSelect ==
  [][\A id \in visibleIds :
       handleClick(id, FALSE, TRUE) =>
         /\ (id \in SeqToSet(selectedIds')) = (id \notin SeqToSet(selectedIds))
         /\ SeqToSet(selectedIds') \ {id} = SeqToSet(selectedIds) \ {id}
         /\ Len(selectedIds') = Cardinality(SeqToSet(selectedIds'))
         /\ anchorId' = anchorId
         /\ SeqToSet(clickResult(internalRoot, selectableItems, selectedIds', anchorId',
                                 id, FALSE, TRUE).selectedIds) = SeqToSet(selectedIds)]_vars

\* ids toggled in out of flat order, the anchor itself toggled out
C16_Witness ==
  /\ selectedIds = <<"B", "A1">>
  /\ anchorId = "A"

\* a step that computes the flat sequence: the first render or a collapse toggle
FlattenStep ==
  \/ Mount
  \/ \E id \in visibleIds \cap Dirs : handleChevronClick(id)

\* ------------------------------------------------------------------------
\* C17  Initialize: when the flat sequence is computed (first render) or
\* recomputed (a collapse toggle) with selectedIds empty and the new flat
\* sequence non-empty, selectedIds becomes the id of the entry with flat
\* index 0 and anchorId that id; otherwise selection and anchor are unchanged.
\* ------------------------------------------------------------------------
C17_Initialize ==
  [][FlattenStep =>
       IF selectedIds = <<>> /\ selectableItems' # <<>>
       THEN /\ selectableItems'[1].index = 0
            /\ selectedIds' = <<internalRoot'[selectableItems'[1].node].id>>
            /\ anchorId' = internalRoot'[selectableItems'[1].node].id
       ELSE /\ selectedIds' = selectedIds
            /\ anchorId' = anchorId]_vars

\* the tree rendered, C was collapsed by a chevron click, and the first
\* entry is the selection and the anchor
C17_Witness ==
  /\ mounted
  /\ selectedIds = <<"A">>
  /\ anchorId = "A"
  /\ "C" \in DOMAIN collapsed
  /\ collapsed["C"]

\* ------------------------------------------------------------------------
\* C18  Once the tree has rendered with visible content, anchorId is never
\* null again, under any clicks, collapse toggles, drags and timer firings.
\* ------------------------------------------------------------------------
C18_AnchorNeverNullAgain ==
  (mounted /\ selectableItems # <<>>) => anchorId # NullId

\* the selection was emptied during use and the anchor is still there
C18_Witness ==
  /\ mounted
  /\ selectedIds = <<>>
  /\ anchorId # NullId
  /\ emitCount = 1

\* parent of a node in the raw tree, and the node's position among its siblings
parentOf(kids, id) == CHOOSE q \in AllIds : id \in SeqToSet(kids[q])

positionOf(kids, id) ==
  (CHOOSE i \in 1..Len(kids[parentOf(kids, id)]) : kids[parentOf(kids, id)][i] = id) - 1

\* a target parent that is neither a dragged node nor a descendant of one
legalParent(q) == ancestorsOrSelfAmong(tree, SeqToSet(draggingIds), q) = {}

\* hoveredParent as a move event over `over` at `ratio` leaves it
afterMove(over, ratio) ==
  dragMoveResult(internalRoot, selectableItems, collapsed, hoveredParent,
                 draggingIds, over, ratio, TRUE).hp

\* the outcome hp of a move event whose candidate is <<q, k, f, intent>>:
\* committed when the parent is legal, the previous value otherwise
commitsOrKeeps(hp, q, k, f, intent) ==
  IF legalParent(q)
  THEN /\ hp.parentId = q
       /\ hp.childIndex = k
       /\ hp.index = f
       /\ hp.dropIntent = intent
  ELSE hp = hoveredParent

\* ------------------------------------------------------------------------
\* C19  Leaf hover zones: over a leaf, ratio < 0.5 commits above with the
\* leaf's parent, its position among its siblings and its flat index; any
\* ratio >= 0.5, also beyond 1, commits below with the same parent,
\* position + 1 and flat index + 1; both subject to cycle validation.
\* ------------------------------------------------------------------------
C19_LeafHoverZones ==
  active # NullId =>
    \A over \in Files \cap visibleIds, ratio \in HoverRatios :
      IF ratio < 50
      THEN commitsOrKeeps(afterMove(over, ratio),
                          parentOf(tree, over), positionOf(tree, over),
                          flatIndexOf(over), "above")
      ELSE commitsOrKeeps(afterMove(over, ratio),
                          parentOf(tree, over), positionOf(tree, over) + 1,
                          flatIndexOf(over) + 1, "below")

\* below the second leaf of A, committed while another node is dragged
C19_Witness ==
  /\ tree = HoverTree
  /\ "A2" \notin SeqToSet(draggingIds)
  /\ hoveredParent = [parentId |-> "A", parentDepth |-> 1, index |-> 3,
                      childIndex |-> 2, dropIntent |-> "below"]

moveOf(over, ratio) ==
  dragMoveResult(internalRoot, selectableItems, collapsed, hoveredParent,
                 draggingIds, over, ratio, TRUE)

\* ------------------------------------------------------------------------
\* C21  Catch zones: hovering the start zone commits parent root, depth 0,
\* childIndex 0, flat index 0, above; hovering the end zone commits parent
\* root, childIndex = number of root children, flat index = length of the
\* flat sequence, below; for any tree, collapse state and dragged set.
\* ------------------------------------------------------------------------
C21_CatchZones ==
  active # NullId =>
    \A ratio \in HoverRatios :
      /\ afterMove(CatchZoneStart, ratio) =
           [parentId |-> ROOT, parentDepth |-> 0, index |-> 0,
            childIndex |-> 0, dropIntent |-> "above"]
      /\ afterMove(CatchZoneEnd, ratio).parentId = ROOT
      /\ afterMove(CatchZoneEnd, ratio).childIndex = Len(tree[ROOT])
      /\ afterMove(CatchZoneEnd, ratio).index = Cardinality(shownIds(tree, collapsed))
      /\ afterMove(CatchZoneEnd, ratio).dropIntent = "below"

\* the end zone committed on a tree with 3 root children and 5 flat entries
C21_Witness ==
  /\ tree = HoverTree
  /\ active # NullId
  /\ hoveredParent = [parentId |-> ROOT, parentDepth |-> 0, index |-> 5,
                      childIndex |-> 3, dropIntent |-> "below"]

\* ------------------------------------------------------------------------
\* C22  A move event with no hovered target resets hoveredParent to the
\* all-null default, whatever it was before, and leaves draggingIds, the
\* selection, the anchor and the collapse map unchanged.
\* ------------------------------------------------------------------------
C22_NoTargetMoveResets ==
  [][handleDragMove(NullId, 50, TRUE) =>
       /\ hoveredParent' = initialHoveredParent
       /\ UNCHANGED <<draggingIds, selectedIds, anchorId, collapsed>>]_vars

\* a gesture whose last move left the default value, the timers cleared
C22_Witness ==
  /\ active # NullId
  /\ lastMove = "other"
  /\ hoveredParent = initialHoveredParent
  /\ pendingTimers = {}
  /\ isCollapsedIn(collapsed, "A")

\* ------------------------------------------------------------------------
\* C23  A move event whose hovered id is a node absent from the current
\* flat sequence stops without effect: hoveredParent keeps its value, the
\* store is not written and the pending timers stay as they are.
\* ------------------------------------------------------------------------
C23_AbsentHoverNoEffect ==
  active # NullId =>
    \A over \in treeNodeIds \ visibleIds, ratio \in HoverRatios :
      /\ moveOf(over, ratio).hp = hoveredParent
      /\ ~storeWrites(moveOf(over, ratio).outcome)
      /\ autoExpandTimers(internalRoot, selectableItems, collapsed,
                          moveOf(over, ratio).hp, timers, FALSE) = timers

\* a committed hover while two nodes of the tree are hidden by a collapse
C23_Witness ==
  /\ active # NullId
  /\ lastMove = "other"
  /\ hoveredParent.parentId = ROOT
  /\ hoveredParent.dropIntent = "above"
  /\ {"A1", "A2"} \subseteq treeNodeIds \ visibleIds

\* ------------------------------------------------------------------------
\* C24  A move event whose newly computed valid target is structurally
\* identical to the current hoveredParent performs no store write (no
\* subscriber is notified).
\* ------------------------------------------------------------------------
C24_IdenticalTargetSkipsWrite ==
  active # NullId =>
    \A over \in OverTargets \ {NullId}, ratio \in HoverRatios :
      (/\ moveOf(over, ratio).outcome \in {"catch", "committed"}
       /\ moveOf(over, ratio).hp = hoveredParent)
        => ~storeWrites(moveOf(over, ratio).outcome)

\* ------------------------------------------------------------------------
\* C25  Cycle rejection as stated: for any container C and any dragged node
\* D that is C or a descendant of C, a candidate drop of D onto C in any
\* zone never commits a hoveredParent whose parentId is C.
\* ------------------------------------------------------------------------
C25_DescendantOntoContainer ==
  active # NullId =>
    \A C \in Dirs \cap visibleIds, ratio \in HoverRatios :
      \A D \in SeqToSet(draggingIds) \cap subtreeIds(tree, C) :
        ~(/\ moveOf(C, ratio).outcome = "committed"
          /\ moveOf(C, ratio).hp.parentId = C)

\* ------------------------------------------------------------------------
\* C25  Cycle rejection, amended: for any dragged node D and any container
\* C that is D or a descendant of D, a candidate drop of D onto C in any
\* zone never commits a hoveredParent whose parentId is C or any other
\* node of D's subtree.
\* ------------------------------------------------------------------------
C25_ContainerInsideDragged ==
  active # NullId =>
    \A D \in SeqToSet(draggingIds), ratio \in HoverRatios :
      \A C \in Dirs \cap visibleIds \cap subtreeIds(tree, D) :
        ~(/\ moveOf(C, ratio).outcome = "committed"
          /\ moveOf(C, ratio).hp.parentId \in subtreeIds(tree, D))

\* A is dragged behind B and the last move, over A or its descendant C,
\* was rejected
C25_Witness ==
  /\ tree = DeepTree
  /\ draggingIds = <<"B", "A">>
  /\ lastMove = "rejected"

\* ------------------------------------------------------------------------
\* C26  Auto-expand arming: a timer is pending for a container only while
\* it is a collapsed directory with at least one child and
\* hoveredParent.parentId is its id, and at most one timer is pending per
\* container, over any sequence of moves, collapse changes and firings.
\* ------------------------------------------------------------------------
C26_TimerOnlyWhileQualifying ==
  \A id \in NodeIds :
    /\ timers[id] <= 1
    /\ timers[id] > 0 =>
         /\ id \in Dirs
         /\ isCollapsedIn(collapsed, id)
         /\ tree[id] # <<>>
         /\ hoveredParent.parentId = id
         /\ active # NullId

\* B is dragged over the collapsed directory A, whose timer is pending
C26_Witness ==
  /\ timers["A"] = 1
  /\ draggingIds = <<"B">>
  /\ hoveredParent.dropIntent = "inside"

\* a step after which the qualifying condition of `id` does not hold: the
\* drag ended by drop or was cancelled, hoveredParent names another parent
\* or none, or `id` is expanded
mustCancel(id) ==
  \/ active' = NullId
  \/ hoveredParent'.parentId # id
  \/ ~isCollapsedIn(collapsed', id)

C29_AutoExpandLiveness ==
  \A id \in Dirs :
    (/\ active # NullId
     /\ hoveredParent.parentId = id
     /\ isCollapsedIn(collapsed, id)
     /\ tree[id] # <<>>)
      ~> (/\ id \in DOMAIN collapsed
          /\ collapsed[id] = FALSE
          /\ SeqToSet(tree[id]) \subseteq visibleIds)

\* the timer of A has fired under a steady hover: A is expanded, its two
\* children are in the flat sequence, no timer is left
C29_Witness ==
  /\ tree = HoverTree
  /\ hoveredParent = [parentId |-> "A", parentDepth |-> 1, index |-> 0,
                      childIndex |-> 0, dropIntent |-> "inside"]
  /\ "A" \in DOMAIN collapsed
  /\ collapsed["A"] = FALSE
  /\ {"A1", "A2"} \subseteq visibleIds
  /\ pendingTimers = {}

\* ------------------------------------------------------------------------
\* C30  Idempotent auto-expand: setting an already expanded container
\* expanded, once or twice, leaves it expanded and the flat sequence
\* unchanged (and is defined for every collapse map).
\* ------------------------------------------------------------------------
C30_ExpandIdempotent ==
  \A id \in treeNodeIds \cap Dirs :
    ~isCollapsedIn(collapsed, id) =>
      LET once == setCollapsedMap(collapsed, id, FALSE)
          twice == setCollapsedMap(once, id, FALSE)
      IN /\ ~isCollapsedIn(once, id)
         /\ ~isCollapsedIn(twice, id)
         /\ twice = once
         /\ useSelectableItems(internalRoot, once) = selectableItems
         /\ useSelectableItems(internalRoot, twice) = selectableItems

\* A was set expanded while C, which holds A, is collapsed: the flat
\* sequence is the same as before
C30_Witness ==
  /\ mounted
  /\ tree["C"] = <<"A">>
  /\ tree["A"] # <<>>
  /\ collapsed = ("A" :> FALSE) @@ ("C" :> TRUE)

\* ------------------------------------------------------------------------
\* C31  payload.items lists the valid dragged nodes in drag order; a
\* dragging id without an entry in the flat sequence at release is omitted
\* and the remaining dragged nodes are still emitted.
\* ------------------------------------------------------------------------
C31_ItemsInDragOrder ==
  (/\ lastDrop.dropped
   /\ lastDrop.over
   /\ lastDrop.hoveredParent.childIndex # NullNum
   /\ lastDrop.hoveredParent.parentId \in subtreeIds(lastDrop.tree, ROOT)) =>
    LET target == lastDrop.hoveredParent.parentId
        resolved == SeqToSet(lastDrop.draggingIds) \cap lastDrop.visible
        valid == resolved \ ancestorsOrSelfAmong(lastDrop.tree, resolved, target)
    IN emitted.items = filterSeq(lastDrop.draggingIds, valid)

\* A1, hidden inside the collapsed A, was dragged along with B: only B is emitted
C31_Witness ==
  /\ lastDrop.dropped
  /\ lastDrop.draggingIds = <<"A1", "B">>
  /\ "A1" \notin lastDrop.visible
  /\ emitted.items = <<"B">>

\* ------------------------------------------------------------------------
\* C32  Drag start: if the grabbed id is in selectedIds, draggingIds becomes
\* the whole of selectedIds and the selection is unchanged; otherwise
\* draggingIds and selectedIds both become exactly that id.
\* ------------------------------------------------------------------------
C32_DragStart ==
  [][\A id \in visibleIds :
       handleDragStart(id) =>
         IF id \in SeqToSet(selectedIds)
         THEN /\ draggingIds' = selectedIds
              /\ selectedIds' = selectedIds
         ELSE /\ draggingIds' = <<id>>
              /\ selectedIds' = <<id>>]_vars

\* a selection of three, made in an order of its own, is dragged as a whole
C32_Witness ==
  /\ active = "A"
  /\ draggingIds = <<"B", "A", "C">>
  /\ selectedIds = <<"B", "A", "C">>

\* the two collapse maps agree everywhere except possibly at `id`
sameExceptAt(collNew, collOld, id) ==
  /\ DOMAIN collOld \subseteq DOMAIN collNew
  /\ \A x \in DOMAIN collNew \ {id} : x \in DOMAIN collOld /\ collNew[x] = collOld[x]

\* ------------------------------------------------------------------------
\* C33  The collapse map is changed only by a collapse toggle of a
\* container or by an auto-expand timer firing, and then only at that
\* container's id; selects, Initialize, drag start, moves, drop, cancel and
\* the rebuild after a drop leave it unchanged.
\* ------------------------------------------------------------------------
C33_CollapseMapFrame ==
  [][collapsed' # collapsed =>
       \E id \in Dirs :
         /\ handleChevronClick(id) \/ autoExpandFire(id)
         /\ sameExceptAt(collapsed', collapsed, id)]_vars

\* the timer of A fired during a drag; the flag of C, set earlier, is still there
C33_Witness ==
  /\ active # NullId
  /\ collapsed = ("A" :> FALSE) @@ ("C" :> TRUE)
  /\ hoveredParent.parentId = "A"
  /\ hoveredParent.index = 0

\* ------------------------------------------------------------------------
\* C34  Tree Model Builder: the augmented root has depth 0 and a null
\* parent; every other augmented node has depth = its parent's depth + 1
\* and a back-reference to the augmented node of its raw parent; each
\* node's augmented children mirror its raw children in the same order.
\* ------------------------------------------------------------------------
C34_BuilderMirrorsRawTree ==
  LET ir == buildInternalTree(tree)
  IN /\ internalRoot = ir
     /\ ir[1].id = ROOT /\ ir[1].depth = 0 /\ ir[1].parent = 0
     /\ \A p \in DOMAIN ir :
          /\ [i \in DOMAIN ir[p].children |-> ir[ir[p].children[i]].id] = tree[ir[p].id]
          /\ \A i \in DOMAIN ir[p].children :
               LET c == ir[p].children[i]
               IN /\ c \in DOMAIN ir
                  /\ ir[c].parent = p
                  /\ ir[c].depth = ir[p].depth + 1
          /\ p # 1 => /\ ir[p].parent \in DOMAIN ir
                      /\ \E i \in DOMAIN ir[ir[p].parent].children :
                           ir[ir[p].parent].children[i] = p

\* a raw tree three levels deep with two siblings at the bottom
C34_Witness ==
  \E p, q \in DOMAIN internalRoot :
    /\ p # q
    /\ internalRoot[p].depth = 3 /\ internalRoot[q].depth = 3
    /\ internalRoot[p].parent = internalRoot[q].parent

\* how many augmented nodes of `ir` carry the id
occurrences(ir, id) == Cardinality({p \in DOMAIN ir : ir[p].id = id})

\* ------------------------------------------------------------------------
\* C35  After a completed drag that the host applied, the tree holds exactly
\* the ids it held before the drop, each exactly once; this includes a
\* dragged selection holding a container together with one of its
\* descendants.
\* ------------------------------------------------------------------------
C35_HostKeepsIdsOnce ==
  (lastDrop.dropped /\ emitted # NoPayload) =>
    \A id \in AllIds :
      occurrences(internalRoot, id) =
        (IF id \in subtreeIds(lastDrop.tree, ROOT) THEN 1 ELSE 0)

\* a drop that emitted a payload, which the host applied
appliedDrop == lastDrop.dropped /\ emitted # NoPayload

\* the target parent's child list after the host applied the payload is
\* payload.children with the items spliced in, and the children that did not
\* move keep their order
splicedAtInsertAt ==
  LET orig == lastDrop.tree[emitted.parent]
      moved == SeqToSet(emitted.items)
  IN /\ tree[emitted.parent] =
          spliceIn(emitted.children, emitted.insertAt, emitted.items)
     /\ SubSeq(tree[emitted.parent], emitted.insertAt + 1,
               emitted.insertAt + Len(emitted.items)) = emitted.items
     /\ filterSeq(tree[emitted.parent], AllIds \ moved) = filterSeq(orig, AllIds \ moved)

\* the child list has `next` right after the moved block, or ends there
movedBlockBefore(next) ==
  LET after == emitted.insertAt + Len(emitted.items) + 1
  IN IF next = <<>> THEN after = Len(tree[emitted.parent]) + 1
     ELSE after \in DOMAIN tree[emitted.parent] /\ tree[emitted.parent][after] = next[1]

\* ------------------------------------------------------------------------
\* C36 (as stated)  After the host applies a payload, the target parent's
\* child list is payload.children with payload.items spliced in at insertAt:
\* the other children keep their order and the moved items sit contiguously,
\* in drag order, immediately before the child that was at
\* hoveredTarget.childIndex in the original list (at the end if childIndex
\* was the list length).
\* ------------------------------------------------------------------------
C36_BeforeChildAtChildIndex ==
  appliedDrop =>
    LET orig == lastDrop.tree[emitted.parent]
        c == lastDrop.hoveredParent.childIndex
    IN /\ splicedAtInsertAt
       /\ movedBlockBefore(SubSeq(orig, c + 1, c + 1))

\* ------------------------------------------------------------------------
\* C36 (amended)  ... the moved items sit contiguously, in drag order,
\* immediately before the first child at or after hoveredTarget.childIndex
\* in the original list that is not itself one of the moved items (at the
\* end if there is none).
\* ------------------------------------------------------------------------
C36_BeforeNextUnmovedChild ==
  appliedDrop =>
    LET orig == lastDrop.tree[emitted.parent]
        c == lastDrop.hoveredParent.childIndex
    IN /\ splicedAtInsertAt
       /\ movedBlockBefore(filterSeq(SubSeq(orig, c + 1, Len(orig)),
                                     AllIds \ SeqToSet(emitted.items)))

\* two siblings moved within their parent: one from before the insertion
\* point, and the child at childIndex itself
C36_Witness ==
  /\ appliedDrop
  /\ Len(emitted.items) = 2
  /\ emitted.insertAt < lastDrop.hoveredParent.childIndex
  /\ lastDrop.hoveredParent.childIndex < Len(lastDrop.tree[emitted.parent])
  /\ lastDrop.tree[emitted.parent][lastDrop.hoveredParent.childIndex + 1]
       \in SeqToSet(emitted.items)
  /\ emitted.children # <<>>

\* ------------------------------------------------------------------------
\* C37  There is always a visible selected item: once the initialize-
\* selection effect has run, whenever the flat sequence is non-empty,
\* selectedIds holds the id of at least one of its entries; also after a
\* collapse that hides the selected node and after toggle-selects.
\* ------------------------------------------------------------------------
C37_VisibleSelectedItem ==
  (mounted /\ selectableItems # <<>>) => SeqToSet(selectedIds) \cap visibleIds # {}

\* ------------------------------------------------------------------------
\* C38  hoveredTarget is all-or-nothing: either parentId, parentDepth,
\* flatIndex, childIndex and dropIntent are all null, or all are non-null,
\* parentId names a node of the current tree, childIndex lies between 0 and
\* the number of that node's children, and parentDepth is that node's depth.
\* ------------------------------------------------------------------------
C38_HoverAllOrNothing ==
  \/ hoveredParent = initialHoveredParent
  \/ /\ hoveredParent.parentId # NullId
     /\ hoveredParent.parentDepth # NullNum
     /\ hoveredParent.index # NullNum
     /\ hoveredParent.childIndex # NullNum
     /\ hoveredParent.dropIntent # NullId
     /\ \E p \in DOMAIN internalRoot :
          /\ internalRoot[p].id = hoveredParent.parentId
          /\ hoveredParent.parentDepth = internalRoot[p].depth
          /\ hoveredParent.childIndex >= 0
          /\ hoveredParent.childIndex <= Len(internalRoot[p].children)

\* a target after the last child of a nested container
C38_Witness ==
  /\ hoveredParent.parentId \in Dirs
  /\ hoveredParent.parentDepth = 1
  /\ hoveredParent.childIndex = Len(tree[hoveredParent.parentId])
  /\ hoveredParent.childIndex > 0

\* containers whose child list is on screen: the root, and every visible
\* directory that is not collapsed
shownContainers ==
  {ROOT} \cup {q \in visibleIds : nodeType(q) = "directory" /\ ~isCollapsedIn(collapsed, q)}

\* some hover input makes the handler commit parent q, child position i
targetable(q, i) ==
  \E over \in OverTargets \ {NullId}, ratio \in HoverRatios :
    LET r == dragMoveResult(internalRoot, selectableItems, collapsed, hoveredParent,
                            draggingIds, over, ratio, TRUE)
    IN /\ storeWrites(r.outcome)
       /\ r.hp.parentId = q
       /\ r.hp.childIndex = i

\* ------------------------------------------------------------------------
\* C39  Every legal insertion position is targetable: for every container P
\* whose children are shown (the root or a visible expanded directory) that
\* is neither dragged nor inside a dragged node, and every i in
\* 0..|children(P)|, some hover input (a hovered node or catch zone, and a
\* ratio) commits parentId = P and childIndex = i.
\* ------------------------------------------------------------------------
C39_EveryPositionTargetable ==
  active # NullId =>
    \A q \in shownContainers :
      legalParent(q) => \A i \in 0..Len(tree[q]) : targetable(q, i)

\* no element occurs twice in the sequence
noRepeats(q) == Cardinality(SeqToSet(q)) = Len(q)

\* the items of the payload a drop would emit now, for hover target hp
itemsIfDropped(hp) ==
  dragEndPayload(internalRoot, selectableItems, hp, draggingIds, TRUE).items

\* ------------------------------------------------------------------------
\* C40  On a tree with unique ids, selectedIds and draggingIds never hold
\* the same id twice after Initialize, plain/toggle/range selects, collapse
\* toggles and drag starts; consequently the items of the payload a drop
\* emits, whatever the hover target, never list a node twice.
\* ------------------------------------------------------------------------
C40_NoRepeatedIds ==
  /\ noRepeats(selectedIds)
  /\ noRepeats(draggingIds)
  /\ active # NullId =>
       \A hp \in hoverValues(internalRoot, selectableItems, collapsed) :
         noRepeats(itemsIfDropped(hp))

\* a drag of four nodes picked by toggle-selects, not in flat order, one of
\* them hidden by a collapse, with a drop that would emit three of them
C40_Witness ==
  /\ active # NullId
  /\ Len(draggingIds) = 4
  /\ draggingIds[1] = "B"
  /\ SeqToSet(draggingIds) \ visibleIds # {}
  /\ Len(itemsIfDropped(catchZoneStartTarget(internalRoot))) = 3

====
